---- MODULE Spec2Model ----
(***************************************************************************)
(* The statistics service of src/index.js: four Express handlers over one  *)
(* MongoDB collection of Statistic documents (src/unnamed/part_000).       *)
(*                                                                         *)
(*   POST /stats                  record one call of an endpoint           *)
(*   GET  /stats/latest           the document with the greatest timestamp *)
(*   GET  /stats/most-called      the url with the greatest count          *)
(*   GET  /stats/endpoint-counts  the count of every url                   *)
(*                                                                         *)
(* Every handler is async: it issues one store operation, awaits it, and   *)
(* answers.  The await is a scheduling point, so a handler is modelled as  *)
(* the step that issues the operation, the store's step (it performs the   *)
(* operation or rejects it) and the step that answers.                     *)
(***************************************************************************)
EXTENDS Integers, Sequences, FiniteSets, TLC

\* ------------------------------------------------------------------ bounds
\* the number of POST /stats requests a behaviour issues
MaxPosts == 3

\* the endpoint names callers report
Endpoints == {"checkout", "inventory"}
\* a timestamp a caller may put in the request body (the handler ignores it)
CallerTimestamps == {"none", "2000-01-01T00:00:00Z"}
\* concurrent POST /stats handlers and concurrent GET handlers
PostProcs == {"p1", "p2"}
QueryProcs == {"q1"}
Kinds == {"latest", "mostCalled", "endpointCounts"}
\* the two declarations of the timestamp field
SchemaTypes == {"String", "Date"}

VARIABLES
  schemaType, \* the type statisticSchema gives the timestamp field
  clock,      \* the wall clock at its last reading, in milliseconds
  store,      \* the Statistic collection, in insertion order
  post,       \* the POST /stats handlers
  query,      \* the GET /stats/... handlers
  started,    \* per endpoint, the POST /stats requests received
  completed   \* per endpoint, the POST /stats requests answered 201

vars == <<schemaType, clock, store, post, query, started, completed>>

\* ------------------------------------------------------------- wall clock
\* The clock counts milliseconds from local midnight of 1/9/2024 and never
\* runs backwards.  The instants at which new Date() is evaluated are
\* 9:59:59.500 AM and 10:00:00.000 AM: two requests can read the same instant,
\* and the hour can roll over between two requests.
StartClock == ((9 * 60 + 59) * 60 + 59) * 1000 + 500
Instants == {StartClock, StartClock + 500}

\* ---------------------------------------------- Date.prototype.toLocaleString
\* Text is a sequence of character codes (the store compares strings by code).
Digit(d) == 48 + d

RECURSIVE Decimal(_)
Decimal(n) == IF n < 10 THEN <<Digit(n)>> ELSE Decimal(n \div 10) \o <<Digit(n % 10)>>

Pad2(n) == <<Digit(n \div 10), Digit(n % 10)>>

\* new Date(ms).toLocaleString() in the en-US locale: "M/D/YYYY, h:mm:ss AM"
toLocaleString(ms) ==
  LET secs == ms \div 1000
      day  == secs \div 86400
      sod  == secs % 86400
      H    == sod \div 3600
      h12  == IF H % 12 = 0 THEN 12 ELSE H % 12
      half == IF H < 12 THEN 65 ELSE 80
  IN  Decimal(1) \o <<47>> \o Decimal(9 + day) \o <<47>> \o Decimal(2024)
        \o <<44, 32>> \o Decimal(h12) \o <<58>> \o Pad2((sod % 3600) \div 60)
        \o <<58>> \o Pad2(sod % 60) \o <<32, half, 77>>

\* ----------------------------------------------------- new Date(string)
IsDigit(c) == c >= 48 /\ c <= 57

\* the numbers written in a text, in order
RECURSIVE Numbers(_, _, _)
Numbers(s, cur, open) ==
  IF s = <<>> THEN (IF open THEN <<cur>> ELSE <<>>)
  ELSE IF IsDigit(Head(s)) THEN Numbers(Tail(s), cur * 10 + (Head(s) - 48), TRUE)
  ELSE (IF open THEN <<cur>> ELSE <<>>) \o Numbers(Tail(s), 0, FALSE)

\* Date.parse of "M/D/YYYY, h:mm:ss AM": the instant, to the second
parseDate(s) ==
  LET n   == Numbers(s, 0, FALSE)
      pm  == \E i \in DOMAIN s : s[i] = 80
      H   == (n[4] % 12) + (IF pm THEN 12 ELSE 0)
  IN  (((n[2] - 9) * 24 + H) * 3600 + n[5] * 60 + n[6]) * 1000

\* mongoose casts the value given for a path to the path's schema type
CastTimestamp(type, text) == IF type = "Date" THEN parseDate(text) ELSE text

\* ----------------------------------------------------------- store order
\* strings compare by character code, position by position
RECURSIVE StrLess(_, _)
StrLess(a, b) ==
  IF b = <<>> THEN FALSE
  ELSE IF a = <<>> THEN TRUE
  ELSE IF Head(a) # Head(b) THEN Head(a) < Head(b)
  ELSE StrLess(Tail(a), Tail(b))

\* the order sort({ timestamp: ... }) uses on stored values
TimestampLess(type, a, b) == IF type = "Date" THEN a < b ELSE StrLess(a, b)

\* ------------------------------------------------------------ documents
Null == [null |-> TRUE]
ErrorBody(msg) == [error |-> msg]
Response(status, body) == [status |-> status, body |-> body]
NoResponse == Response(0, Null)
NoPrevious == [readLen |-> -1, resp |-> NoResponse]

\* new Statistic({ url: calledService, timestamp: new Date().toLocaleString() })
NewStatistic(body, type, ms) ==
  [url |-> body.calledService,
   timestamp |-> CastTimestamp(type, toLocaleString(ms))]

Bodies == [calledService : Endpoints, timestamp : CallerTimestamps]

Total(f) == LET RECURSIVE Sum(_)
                Sum(S) == IF S = {} THEN 0
                          ELSE LET e == CHOOSE e \in S : TRUE IN f[e] + Sum(S \ {e})
            IN Sum(DOMAIN f)

\* ------------------------------------------------- the store's operations
Min(a, b) == IF a <= b THEN a ELSE b

\* all orders in which the members of a set can come
Orderings(S) ==
  {f \in [1..Cardinality(S) -> S] : \A i, j \in DOMAIN f : i # j => f[i] # f[j]}

\* Statistic.findOne().sort({ timestamp: -1 }).limit(1): a document no other
\* document follows in the sort order, null on an empty collection.  The store
\* promises no order among documents of equal timestamp.
FindLatest(type, s) ==
  IF s = <<>> THEN {Null}
  ELSE {s[i] : i \in {i \in DOMAIN s :
                        \A j \in DOMAIN s :
                          ~TimestampLess(type, s[i].timestamp, s[j].timestamp)}}

\* a $group that does not sum: every group counts 1
GroupByUrlNoSum(s) ==
  Orderings({[_id |-> u, count |-> 1] : u \in {s[i].url : i \in DOMAIN s}})

\* { $group: { _id: "$url", count: { $sum: 1 } } }: one document per url, in
\* an order the store does not promise
GroupByUrl(s) ==
  Orderings({[_id |-> u, count |-> Cardinality({i \in DOMAIN s : s[i].url = u})] :
               u \in {s[i].url : i \in DOMAIN s}})

\* { $sort: { count: 1 } }: the documents by rising count
SortByCountAsc(docs) ==
  {f \in Orderings({docs[i] : i \in DOMAIN docs}) :
     \A i, j \in DOMAIN f : i < j => f[i].count <= f[j].count}

\* { $sort: { count: -1 } }: the documents by falling count, documents of equal
\* count in an order the store does not promise
SortByCountDesc(docs) ==
  {f \in Orderings({docs[i] : i \in DOMAIN docs}) :
     \A i, j \in DOMAIN f : i < j => f[i].count >= f[j].count}

\* { $limit: n }
Limit(docs, n) == SubSeq(docs, 1, Min(n, Len(docs)))

\* { $project: { url: "$_id", count: 1, _id: 0 } }
Project(docs) == [i \in DOMAIN docs |-> [url |-> docs[i]._id, count |-> docs[i].count]]

\* the pipeline of GET /stats/most-called
MostCalledPipeline(s) ==
  {Project(Limit(sorted, 1)) : sorted \in UNION {SortByCountDesc(g) : g \in GroupByUrl(s)}}

\* the pipeline of GET /stats/endpoint-counts
EndpointCountsPipeline(s) == {Project(g) : g \in GroupByUrl(s)}

\* what the store may answer to the query of a handler
QueryResults(kind, type, s) ==
  CASE kind = "latest"         -> FindLatest(type, s)
    [] kind = "mostCalled"     -> MostCalledPipeline(s)
    [] kind = "endpointCounts" -> EndpointCountsPipeline(s)

\* ----------------------------------------------- the handlers' answers
\* res.status(200).json(latestStat)
LatestResponse(latestStat) == Response(200, latestStat)

MostCalledResponse(mostCalledStat) ==
  IF Len(mostCalledStat) = 0
  THEN Response(404, ErrorBody("No statistics available"))
  ELSE Response(200, mostCalledStat[1])

EndpointCountsResponse(endpointCounts) ==
  IF Len(endpointCounts) = 0
  THEN Response(404, ErrorBody("No statistics available"))
  ELSE Response(200, endpointCounts)

QueryResponse(kind, result) ==
  CASE kind = "latest"         -> LatestResponse(result)
    [] kind = "mostCalled"     -> MostCalledResponse(result)
    [] kind = "endpointCounts" -> EndpointCountsResponse(result)

\* catch (error) { res.status(500).json({ error: 'Internal Server Error' }) }
ErrorResponse == Response(500, ErrorBody("Internal Server Error"))

Init ==
  /\ schemaType \in SchemaTypes
  /\ clock = StartClock
  /\ store = <<>>
  /\ post = [p \in PostProcs |-> [pc |-> "idle", doc |-> Null, resp |-> NoResponse]]
  /\ query = [q \in QueryProcs |->
                [pc |-> "idle", kind |-> "latest", resp |-> NoResponse, readLen |-> 0,
                 completedAtStart |-> [e \in Endpoints |-> 0], prev |-> NoPrevious]]
  /\ started = [e \in Endpoints |-> 0]
  /\ completed = [e \in Endpoints |-> 0]

\* -------------------------------------------------------- POST /stats
\* the handler reads calledService, builds the document with the wall clock's
\* reading and calls save()
PostBegin(p, body, now) ==
  /\ post[p].pc \in {"idle", "done"}
  /\ Total(started) < MaxPosts
  /\ now >= clock
  /\ clock' = now
  /\ post' = [post EXCEPT ![p] = [pc |-> "saving", resp |-> NoResponse,
                                  doc |-> NewStatistic(body, schemaType, now)]]
  /\ started' = [started EXCEPT ![body.calledService] = @ + 1]
  /\ UNCHANGED <<schemaType, store, query, completed>>

\* a save that replaces the url's document instead of inserting one
SaveOkUpsert(p) ==
  /\ post[p].pc = "saving"
  /\ store' = Append(SelectSeq(store, LAMBDA d : d.url # post[p].doc.url), post[p].doc)
  /\ post' = [post EXCEPT ![p].pc = "saved"]
  /\ UNCHANGED <<schemaType, clock, query, started, completed>>

\* the store inserts the document: save() resolves
SaveOk(p) ==
  /\ post[p].pc = "saving"
  /\ store' = Append(store, post[p].doc)
  /\ post' = [post EXCEPT ![p].pc = "saved"]
  /\ UNCHANGED <<schemaType, clock, query, started, completed>>

\* res.status(201).json(newStatistic)
PostRespond(p) ==
  /\ post[p].pc = "saved"
  /\ post' = [post EXCEPT ![p] = [pc |-> "done", doc |-> Null,
                                  resp |-> Response(201, post[p].doc)]]
  /\ completed' = [completed EXCEPT ![post[p].doc.url] = @ + 1]
  /\ UNCHANGED <<schemaType, clock, store, query, started>>

\* a rejected save whose document is in the collection all the same
SaveFailWritten(p) ==
  /\ post[p].pc = "saving"
  /\ store' = Append(store, post[p].doc)
  /\ post' = [post EXCEPT ![p] = [pc |-> "done", doc |-> Null, resp |-> ErrorResponse]]
  /\ UNCHANGED <<schemaType, clock, query, started, completed>>

\* the store cannot take the write: save() rejects, and the catch block answers
SaveFail(p) ==
  /\ post[p].pc = "saving"
  /\ post' = [post EXCEPT ![p] = [pc |-> "done", doc |-> Null, resp |-> ErrorResponse]]
  /\ UNCHANGED <<schemaType, clock, store, query, started, completed>>

\* ------------------------------------------------------ GET /stats/...
\* the answer of the request before, while the same query is asked again
Previous(old, kind) ==
  IF old.pc = "done" /\ old.kind = kind /\ old.resp.status # 500
  THEN [readLen |-> old.readLen, resp |-> old.resp]
  ELSE NoPrevious

\* the handler issues its query
QueryBegin(q, kind) ==
  /\ query[q].pc \in {"idle", "done"}
  /\ query' = [query EXCEPT ![q] =
                 [pc |-> "waiting", kind |-> kind, resp |-> NoResponse, readLen |-> 0,
                  completedAtStart |-> completed, prev |-> Previous(query[q], kind)]]
  /\ UNCHANGED <<schemaType, clock, store, post, started, completed>>

\* a query answered from the collection as it was before the latest insert
QueryOkStale(q) ==
  /\ query[q].pc = "waiting"
  /\ \E r \in QueryResults(query[q].kind, schemaType,
                           SubSeq(store, 1, Len(store) - 1)) :
       query' = [query EXCEPT ![q].pc = "done", ![q].readLen = Len(store),
                              ![q].resp = QueryResponse(query[q].kind, r),
                              ![q].prev = NoPrevious,
                              ![q].completedAtStart = [e \in Endpoints |-> 0]]
  /\ UNCHANGED <<schemaType, clock, store, post, started, completed>>

\* the store runs the query on the collection as it stands, the await resolves
\* and the handler answers from the result
QueryOk(q) ==
  /\ query[q].pc = "waiting"
  /\ \E r \in QueryResults(query[q].kind, schemaType, store) :
       query' = [query EXCEPT ![q].pc = "done", ![q].readLen = Len(store),
                              ![q].resp = QueryResponse(query[q].kind, r),
                              ![q].prev = NoPrevious,
                              ![q].completedAtStart = [e \in Endpoints |-> 0]]
  /\ UNCHANGED <<schemaType, clock, store, post, started, completed>>

\* the store cannot be queried: the await rejects, and the catch block answers
QueryFail(q) ==
  /\ query[q].pc = "waiting"
  /\ query' = [query EXCEPT ![q].pc = "done", ![q].readLen = Len(store),
                            ![q].resp = ErrorResponse, ![q].prev = NoPrevious,
                              ![q].completedAtStart = [e \in Endpoints |-> 0]]
  /\ UNCHANGED <<schemaType, clock, store, post, started, completed>>

Next ==
  \/ \E p \in PostProcs, body \in Bodies, now \in Instants : PostBegin(p, body, now)
  \/ \E p \in PostProcs : SaveOk(p)
  \/ \E p \in PostProcs : PostRespond(p)
  \/ \E p \in PostProcs : SaveFail(p)
  \/ \E q \in QueryProcs, kind \in Kinds : QueryBegin(q, kind)
  \/ \E q \in QueryProcs : QueryOk(q)
  \/ \E q \in QueryProcs : QueryFail(q)

Spec == Init /\ [][Next]_vars

\* ------------------------------------------------------------ properties
\* the number of documents of a collection that name endpoint e
CountOf(s, e) == Cardinality({i \in DOMAIN s : s[i].url = e})

\* the collection a finished query was answered from (documents are only ever
\* appended, so it is the prefix of the length the store had at the read)
Snapshot(q) == SubSeq(store, 1, query[q].readLen)

\* request q has been answered, and it was a query of the given kind
Answered(q, kind) == query[q].pc = "done" /\ query[q].kind = kind

\* the step in which request q is answered
Answers(q) == query[q].pc = "waiting" /\ query'[q].pc = "done"

\* no POST /stats request is under way
Quiet == \A p \in PostProcs : post[p].pc \in {"idle", "done"}

\* the entries an answer of GET /stats/endpoint-counts carries
Entries(resp) == IF resp.status = 200 THEN resp.body ELSE <<>>

\* the count an answer to a query of the given kind reports for endpoint e:
\* "none" where the answer says nothing about e
Reported(kind, resp, e) ==
  IF kind = "endpointCounts"
  THEN LET hits == {i \in DOMAIN Entries(resp) : Entries(resp)[i].url = e}
       IN  IF hits = {} THEN 0 ELSE Entries(resp)[CHOOSE i \in hits : TRUE].count
  ELSE IF resp.status = 200 /\ resp.body.url = e THEN resp.body.count
  ELSE IF resp.status = 200 THEN -1
  ELSE 0

\* the instant a stored timestamp stands for
Chrono(ts) == IF schemaType = "Date" THEN ts ELSE parseDate(ts)

\* C1: when every record call has completed (none is under way), an answer of
\* endpointCounts carries exactly one entry for every endpoint with a
\* completed call, none for any other endpoint, and each entry's count is the
\* number of completed calls for its endpoint, however the calls interleaved.
C1_CountsEqualCalls ==
  [][\A q \in QueryProcs :
       (Answers(q) /\ query[q].kind = "endpointCounts" /\ Quiet
          /\ query'[q].resp.status # 500)
       => LET entries == Entries(query'[q].resp)
          IN  /\ \A e \in Endpoints :
                   Cardinality({i \in DOMAIN entries : entries[i].url = e})
                     = (IF completed[e] > 0 THEN 1 ELSE 0)
              /\ \A i \in DOMAIN entries :
                   /\ entries[i].url \in Endpoints
                   /\ entries[i].count = completed[entries[i].url]]_vars

\* C1 witness: both handlers have recorded calls, three calls in all for two
\* endpoints are complete, and endpointCounts has answered with two entries
C1_Witness ==
  /\ Quiet
  /\ \A p \in PostProcs : post[p].resp.status = 201
  /\ Total(completed) = 3
  /\ \E q \in QueryProcs :
       /\ Answered(q, "endpointCounts")
       /\ query[q].readLen = 3
       /\ query[q].resp.status = 200
       /\ Len(query[q].resp.body) = 2

\* C2: on a non-empty collection latest answers with a record whose
\* recordedAt is, as an instant, no earlier than that of any stored record.
C2_LatestIsChronologicalMax ==
  \A q \in QueryProcs :
    (Answered(q, "latest") /\ query[q].resp.status # 500 /\ query[q].readLen > 0)
    => /\ query[q].resp.status = 200
       /\ query[q].resp.body # Null
       /\ \A i \in DOMAIN Snapshot(q) :
            Chrono(Snapshot(q)[i].timestamp) <= Chrono(query[q].resp.body.timestamp)

\* C3: on a non-empty collection mostCalled answers with a pair (url, count)
\* whose count is the number of stored records of that url and is the greatest
\* count among the entries endpointCounts gives on the same records.
C3_MostCalledIsMax ==
  \A q \in QueryProcs :
    (Answered(q, "mostCalled") /\ query[q].resp.status # 500 /\ query[q].readLen > 0)
    => /\ query[q].resp.status = 200
       /\ query[q].resp.body.count = CountOf(Snapshot(q), query[q].resp.body.url)
       /\ \A counts \in EndpointCountsPipeline(Snapshot(q)) :
            /\ \A i \in DOMAIN counts : counts[i].count <= query[q].resp.body.count
            /\ \E i \in DOMAIN counts : counts[i] = query[q].resp.body

\* C3 witness: mostCalled answered on three records of two endpoints, with the
\* endpoint that has two of them
C3_Witness ==
  \E q \in QueryProcs :
    /\ Answered(q, "mostCalled")
    /\ query[q].readLen = 3
    /\ query[q].resp.status = 200
    /\ query[q].resp.body.count = 2
    /\ \A e \in Endpoints : CountOf(Snapshot(q), e) > 0

\* C4: endpointCounts never answers not-found: its answer is a success with a
\* sequence (the empty one on an empty collection) or the store's failure.
C4_CountsNeverNotFound ==
  \A q \in QueryProcs :
    Answered(q, "endpointCounts")
    => /\ query[q].resp.status \in {200, 500}
       /\ (query[q].readLen = 0 /\ query[q].resp.status = 200)
            => Len(query[q].resp.body) = 0

\* C5: on an empty collection latest and mostCalled answer not-found, not a
\* success, unless the store itself failed.
C5_EmptyIsNotFound ==
  \A q \in QueryProcs :
    ((Answered(q, "latest") \/ Answered(q, "mostCalled"))
       /\ query[q].readLen = 0 /\ query[q].resp.status # 500)
    => query[q].resp.status = 404

\* two answers to the same query say the same (the entries of endpointCounts
\* are compared without regard to their order, which is not specified)
SameAnswer(kind, a, b) ==
  /\ a.status = b.status
  /\ IF kind = "endpointCounts" /\ a.status = 200
     THEN {a.body[i] : i \in DOMAIN a.body} = {b.body[i] : i \in DOMAIN b.body}
     ELSE a.body = b.body

\* C6: a query asked again with no record added in between is answered as it
\* was answered before, also when endpoints tie at the greatest count or
\* records tie at the greatest timestamp.
C6_ReadsRepeat ==
  [][\A q \in QueryProcs :
       (Answers(q) /\ query[q].prev.readLen = Len(store)
          /\ query'[q].resp.status # 500)
       => SameAnswer(query[q].kind, query'[q].resp, query[q].prev.resp)]_vars

\* C7: the collection only grows, by one document per successful save, the
\* document of the saving request, which names the endpoint the request gave;
\* a failed save and every query leave the collection as it is.
C7_AppendOnly ==
  [][/\ Len(store') >= Len(store)
     /\ SubSeq(store', 1, Len(store)) = store
     /\ \A p \in PostProcs :
          /\ (post[p].pc = "saving" /\ post'[p].pc = "saved")
               => store' = Append(store, post[p].doc)
          /\ \A e \in Endpoints :
               (post'[p].pc = "saving" /\ post[p].pc # "saving"
                  /\ started'[e] # started[e])
               => post'[p].doc.url = e
     /\ (store' # store)
          => \E p \in PostProcs : post[p].pc = "saving" /\ post'[p].pc = "saved"
     /\ (query' # query) => store' = store]_vars

\* C7 witness: three records are stored, one after a query was answered
C7_Witness ==
  /\ Len(store) = 3
  /\ \E q \in QueryProcs : query[q].pc = "done" /\ query[q].readLen = 2
  /\ \E i, j \in DOMAIN store : store[i].url # store[j].url

\* C8: records are stored in the order of their recordedAt: a record appended
\* before another has a recordedAt no later than the other's.
C8_MonotoneInAppendOrder ==
  \A i, j \in DOMAIN store :
    i < j => Chrono(store[i].timestamp) <= Chrono(store[j].timestamp)

\* C9: a store failure is answered 500 with the error alone.  The collection
\* holds one document per save that succeeded, so a failed record call added
\* nothing; a request whose save failed is over (its handler saves nothing
\* again); a failed query's answer carries no data.
C9_FailureSurfaced ==
  /\ \A e \in Endpoints :
       CountOf(store, e)
         = completed[e]
           + Cardinality({p \in PostProcs : post[p].pc = "saved" /\ post[p].doc.url = e})
  /\ \A p \in PostProcs :
       /\ post[p].resp.status \in {0, 201, 500}
       /\ post[p].resp.status = 500
            => post[p].pc = "done" /\ post[p].resp.body = ErrorBody("Internal Server Error")
  /\ \A q \in QueryProcs :
       query[q].resp.status = 500
         => query[q].pc = "done" /\ query[q].resp.body = ErrorBody("Internal Server Error")

\* C9 witness: a record call failed after one succeeded, the collection holds
\* the one record, and a query on it failed too
C9_Witness ==
  /\ Len(store) = 1
  /\ Total(started) = 2
  /\ \E p \in PostProcs : post[p].pc = "done" /\ post[p].resp.status = 500
  /\ \E q \in QueryProcs : query[q].pc = "done" /\ query[q].resp.status = 500
                             /\ query[q].readLen = 1

\* C10: the count a query reports for an endpoint is at least the number of
\* record calls for it that had completed when the query started and at most
\* the number that have started when the query returns; an answer without
\* data is given only if no record call had completed when the query started.
C10_CountBetweenCompletedAndStarted ==
  [][\A q \in QueryProcs :
       (Answers(q) /\ query[q].kind \in {"endpointCounts", "mostCalled"}
          /\ query'[q].resp.status # 500)
       => \A e \in Endpoints :
            LET n == Reported(query[q].kind, query'[q].resp, e)
            IN  n # -1 => /\ query[q].completedAtStart[e] <= n
                          /\ n <= started[e]]_vars

\* C10 witness: endpointCounts answered while a record call was under way and
\* after another had completed
C10_Witness ==
  \E q \in QueryProcs :
    /\ Answered(q, "endpointCounts")
    /\ query[q].resp.status = 200
    /\ query[q].readLen = Len(store)
    /\ Total(completed) >= 1
    /\ \E p \in PostProcs : post[p].pc = "saved"
    /\ \E p \in PostProcs : post[p].pc = "saving"
====
